---- MODULE Spec2Model ----
(***************************************************************************)
(* Model of backend/flaskr/utils.py of the stocking backend: the market    *)
(* data normalizer, the currency rate normalizer, the two upserts and the  *)
(* company query, run against a PostgreSQL store through psycopg2.         *)
(*                                                                         *)
(* The store is the committed content of the tables Company and            *)
(* ExchangeRates.  Every function of utils.py is one action; a call runs   *)
(* to its return or to the exception it raises.                            *)
(***************************************************************************)
EXTENDS Integers, Sequences, FiniteSets, TLC

VARIABLES
    today,          \* date.today()
    company,        \* committed rows of table Company
    exchangeRates,  \* committed rows of table ExchangeRates
    openConns,      \* connections returned by psycopg2.connect and not closed
    op,             \* the function called last
    args,           \* its arguments
    outcome,        \* "ok" when it returned, else the exception it raised
    result,         \* the value it returned (<<>> when it raised)
    executed,       \* rows of the batch whose statement was executed
    firstRec,       \* history: ticker -> first record committed for it
    lastRec,        \* history: ticker -> most recent record committed for it
    lastRate,       \* history: currency -> provider rate committed last
    lastSync        \* history: currency -> date of the last committed sync

vars == <<today, company, exchangeRates, openConns, op, args, outcome, result,
          executed, firstRec, lastRec, lastRate, lastSync>>

(***************************************************************************)
(* Bounds of the model.                                                    *)
(***************************************************************************)
MaxDay == 2         \* days the clock runs through
MaxBatch == 2       \* longest batch handed to an upsert
MaxConns == 1       \* connections the server accepts at a time
MaxCount == 2       \* largest LIMIT asked of the query
MaxList == 2        \* longest exclusion list and longest allow-list
MaxTickers == 2     \* most tickers handed to process_stock_data
MaxCurrencies == 3  \* most currencies handed to process_currency_data

Min(a, b) == IF a < b THEN a ELSE b

Range(s) == {s[i] : i \in 1..Len(s)}

\* sequences over S of length 0..n
SeqUpTo(S, n) == UNION {[1..k -> S] : k \in 0..n}

\* sequences without repetition that enumerate exactly the set S
Orderings(S) == {s \in [1..Cardinality(S) -> S] : Range(s) = S}

(***************************************************************************)
(* The market-data provider.  A Ticker object of yfinance has the          *)
(* attribute ticker (the symbol, a string) and the attribute info (a       *)
(* dict).  A dict is a function; a key it lacks is outside its DOMAIN.     *)
(***************************************************************************)
Symbols == {"AAPL", "AMD", "GOOGL"}

Versions == {1, 2}

InfoKeys == {"symbol", "shortName", "marketCap", "financialCurrency",
             "sector", "website"}

CurrencyOf(s, v) ==
    IF s = "AAPL" THEN (IF v = 1 THEN "USD" ELSE "EUR")
    ELSE IF s = "AMD" THEN (IF v = 1 THEN "EUR" ELSE "GBP")
    ELSE (IF v = 1 THEN "GBP" ELSE "USD")

FullInfo(s, v) ==
    [symbol |-> s,
     shortName |-> IF v = 1 THEN s \o " Inc" ELSE s \o " Corp",
     marketCap |-> v,
     financialCurrency |-> CurrencyOf(s, v),
     sector |-> IF v = 1 THEN "Tech" ELSE "Energy",
     website |-> IF v = 1 THEN s \o ".com" ELSE s \o ".org"]

Without(d, k) == [x \in DOMAIN d \ {k} |-> d[x]]

TickerObject(s, info) == [ticker |-> s, info |-> info]

\* the objects of complete records and of records that lack one field
TickerObjects ==
    {TickerObject(s, FullInfo(s, v)) : s \in Symbols, v \in Versions}
    \cup {TickerObject(s, Without(FullInfo(s, 1), k)) : s \in Symbols, k \in InfoKeys}

(***************************************************************************)
(* Table Company.                                                          *)
(***************************************************************************)
CompanyFields == {"ticker", "name", "market_cap", "currency", "date",
                  "sector", "website"}

\* the dict process_stock_data builds from a complete info on day d
CompanyRecord(info, d) ==
    [ticker |-> info["symbol"],
     name |-> info["shortName"],
     market_cap |-> info["marketCap"],
     currency |-> info["financialCurrency"],
     date |-> d,
     sector |-> info["sector"],
     website |-> info["website"]]

\* a record of a batch that lacks the key "website"
MalformedRecord(d) == Without(CompanyRecord(FullInfo("AMD", 1), d), "website")

\* an upsert whose conflict branch overwrites every column of the row
UpsertCompanyRowAllColumns(table, row) ==
    {r \in table : r.ticker # row["ticker"]}
    \cup {[ticker |-> row["ticker"],
            name |-> row["name"],
            market_cap |-> row["market_cap"],
            currency |-> row["currency"],
            date |-> row["date"],
            sector |-> row["sector"],
            website |-> row["website"]]}

\* INSERT INTO Company ... ON CONFLICT (ticker) DO UPDATE SET market_cap,
\* date, currency, website = EXCLUDED.*
UpsertCompanyRow(table, row) ==
    IF \E r \in table : r.ticker = row["ticker"]
    THEN {IF r.ticker = row["ticker"]
          THEN [r EXCEPT !.market_cap = row["market_cap"],
                         !.date = row["date"],
                         !.currency = row["currency"],
                         !.website = row["website"]]
          ELSE r : r \in table}
    ELSE table \cup {[ticker |-> row["ticker"],
                      name |-> row["name"],
                      market_cap |-> row["market_cap"],
                      currency |-> row["currency"],
                      date |-> row["date"],
                      sector |-> row["sector"],
                      website |-> row["website"]]}

\* The loop of upsert_stock_data inside the transaction: rows i..Len(data)
\* are executed on the uncommitted table txn.  A row that lacks a key
\* raises KeyError; the statement of row failAt raises a storage error.
RECURSIVE ExecuteStockRows(_, _, _, _)
ExecuteStockRows(txn, data, i, failAt) ==
    IF i > Len(data)
    THEN [status |-> "ok", txn |-> txn, executed |-> Len(data)]
    ELSE IF ~(CompanyFields \subseteq DOMAIN data[i])
    THEN [status |-> "KeyError", txn |-> txn, executed |-> i - 1]
    ELSE IF failAt = i
    THEN [status |-> "StorageError", txn |-> txn, executed |-> i - 1]
    ELSE ExecuteStockRows(UpsertCompanyRow(txn, data[i]), data, i + 1, failAt)

\* what a batch that runs without error leaves in the table
StockBatchResult(table, data) == ExecuteStockRows(table, data, 1, 0)

\* psycopg2.connect inside try/except: the connection, or None when the
\* store is unreachable or refuses one more connection
connect_to_db(reachable) == reachable /\ openConns < MaxConns

\* a transaction whose executed statements stay in the store when the call
\* raises (every statement committed on its own)
TransactionEndKeepsRows(status, committed, txn) == txn

\* What the store holds once the with-block of the connection is left:
\* conn.commit() is reached only after the loop; an exception leaves the
\* block through the rollback of the connection's __exit__.
TransactionEnd(status, committed, txn) ==
    IF status = "ok" THEN txn ELSE committed

\* psycopg2 leaves the connection open when its with-block is left; no
\* function of utils.py calls close().
ConnsAfterCall(conn) == IF conn THEN openConns + 1 ELSE openConns

\* history of the committed records, row by row
RECURSIVE FirstSeen(_, _, _)
FirstSeen(h, data, i) ==
    IF i > Len(data) THEN h
    ELSE FirstSeen(IF data[i].ticker \in DOMAIN h THEN h
                   ELSE (data[i].ticker :> data[i]) @@ h, data, i + 1)

RECURSIVE LastSeen(_, _, _)
LastSeen(h, data, i) ==
    IF i > Len(data) THEN h
    ELSE LastSeen((data[i].ticker :> data[i]) @@ h, data, i + 1)

\* the exception a call ends with, "ok" when it returns: with None raises
\* before anything runs, a storage error may come from conn.commit() too
CallStatus(conn, run, data, failAt) ==
    IF ~conn THEN "AttributeError"
    ELSE IF run.status = "ok" /\ failAt = Len(data) + 1 THEN "StorageError"
    ELSE run.status

upsert_stock_data(data, reachable, failAt) ==
    \E conn \in {connect_to_db(reachable)} :
    \E run \in {ExecuteStockRows(company, data, 1, failAt)} :
    \E status \in {CallStatus(conn, run, data, failAt)} :
        /\ company' = (IF conn THEN TransactionEnd(status, company, run.txn)
                                ELSE company)
        /\ openConns' = ConnsAfterCall(conn)
        /\ op' = "upsert_stock_data"
        /\ args' = [n |-> Len(data)]
        /\ outcome' = status
        /\ result' = <<>>
        /\ executed' = (IF conn THEN run.executed ELSE 0)
        /\ firstRec' = (IF status = "ok" THEN FirstSeen(firstRec, data, 1)
                                          ELSE firstRec)
        /\ lastRec' = (IF status = "ok" THEN LastSeen(lastRec, data, 1)
                                         ELSE lastRec)
        /\ UNCHANGED <<today, exchangeRates, lastRate, lastSync>>

\* the runtime finalizes connection objects nothing refers to any more
CollectGarbage ==
    /\ openConns > 0
    /\ openConns' = 0
    /\ UNCHANGED <<today, company, exchangeRates, op, args, outcome, result,
                   executed, firstRec, lastRec, lastRate, lastSync>>

\* midnight: date.today() moves on
Tick ==
    /\ today < MaxDay
    /\ today' = today + 1
    /\ UNCHANGED <<company, exchangeRates, openConns, op, args, outcome,
                   result, executed, firstRec, lastRec, lastRate, lastSync>>

StoredSymbols == {"AAPL", "AMD"}

\* the records a batch is made of on day d
StockRecords(d) ==
    {CompanyRecord(FullInfo("AAPL", v), d) : v \in Versions}
    \cup {CompanyRecord(FullInfo("AMD", 1), d), MalformedRecord(d)}

StockBatches(d) == SeqUpTo(StockRecords(d), MaxBatch)

Init ==
    /\ today = 1
    /\ company = {}
    /\ exchangeRates = {}
    /\ openConns = 0
    /\ op = "none"
    /\ args = <<>>
    /\ outcome = "ok"
    /\ result = <<>>
    /\ executed = 0
    /\ firstRec = <<>>
    /\ lastRec = <<>>
    /\ lastRate = <<>>
    /\ lastSync = <<>>

\* where a call may meet a storage error: nowhere (0), at the statement of
\* row k, or at conn.commit() (Len(data) + 1)
FailPoints(data, reachable) ==
    IF reachable THEN 0..(Len(data) + 1) ELSE {0}

UpsertStock ==
    \E data \in StockBatches(today), reachable \in BOOLEAN :
        \E failAt \in FailPoints(data, reachable) :
            upsert_stock_data(data, reachable, failAt)

NextStock == Tick \/ CollectGarbage \/ UpsertStock

SpecStock == Init /\ [][NextStock]_vars

(***************************************************************************)
(* Table ExchangeRates.  A provider rate "1 USD = p/q units of currency"   *)
(* is the fraction <<p, q>>; so is a stored ratio.                         *)
(***************************************************************************)
ProviderRates == {<<0, 1>>, <<1, 2>>, <<2, 1>>}

\* a Python dict in insertion order: the sequence of its <<key, value>> items
Dict(k, v) == << <<k, v>> >>

EmptyDict == << >>

keys(d) == [i \in 1..Len(d) |-> d[i][1]]

\* d[k] for a key the dict holds
Lookup(d, k) == d[CHOOSE i \in 1..Len(d) : d[i][1] = k][2]

\* a rate left as the provider quotes it
InvertNot(rate) == rate

\* 1 / rate, for a rate other than zero
Invert(rate) == <<rate[2], rate[1]>>

\* INSERT INTO ExchangeRates ... ON CONFLICT (from_currency, to_currency)
\* DO UPDATE SET ratio = EXCLUDED.ratio
UpsertRateRow(table, from, to, ratio, d) ==
    IF \E r \in table : r.from_currency = from /\ r.to_currency = to
    THEN {IF r.from_currency = from /\ r.to_currency = to
          THEN [r EXCEPT !.ratio = ratio]
          ELSE r : r \in table}
    ELSE table \cup {[from_currency |-> from, to_currency |-> to,
                      ratio |-> ratio, date |-> d]}

\* The loop of upsert_exchange_rates inside the transaction.  An empty
\* dict has no first key (IndexError), 1 / 0 raises ZeroDivisionError, the
\* statement of row failAt raises a storage error.
RECURSIVE ExecuteRateRows(_, _, _, _, _)
ExecuteRateRows(txn, data, i, failAt, current_date) ==
    IF i > Len(data)
    THEN [status |-> "ok", txn |-> txn, executed |-> Len(data)]
    ELSE IF Len(keys(data[i])) = 0
    THEN [status |-> "IndexError", txn |-> txn, executed |-> i - 1]
    ELSE LET currency == keys(data[i])[1]
             quoted == Lookup(data[i], currency)
         IN  IF quoted[1] = 0
             THEN [status |-> "ZeroDivisionError", txn |-> txn,
                   executed |-> i - 1]
             ELSE IF failAt = i
             THEN [status |-> "StorageError", txn |-> txn, executed |-> i - 1]
             ELSE ExecuteRateRows(
                      UpsertRateRow(txn, currency, "USD", Invert(quoted),
                                    current_date),
                      data, i + 1, failAt, current_date)

\* history of the committed rates, row by row
RECURSIVE LastQuoted(_, _, _)
LastQuoted(h, data, i) ==
    IF i > Len(data) THEN h
    ELSE LastQuoted((data[i][1][1] :> data[i][1][2]) @@ h, data, i + 1)

upsert_exchange_rates(data, reachable, failAt) ==
    \E current_date \in {today} :
    \E conn \in {connect_to_db(reachable)} :
    \E run \in {ExecuteRateRows(exchangeRates, data, 1, failAt, current_date)} :
    \E status \in {CallStatus(conn, run, data, failAt)} :
    \E synced \in {IF status = "ok" THEN {data[i][1][1] : i \in 1..Len(data)}
                                     ELSE {}} :
        /\ exchangeRates' = (IF conn
                             THEN TransactionEnd(status, exchangeRates, run.txn)
                             ELSE exchangeRates)
        /\ openConns' = ConnsAfterCall(conn)
        /\ op' = "upsert_exchange_rates"
        /\ args' = [n |-> Len(data)]
        /\ outcome' = status
        /\ result' = <<>>
        /\ executed' = (IF conn THEN run.executed ELSE 0)
        /\ lastRate' = (IF status = "ok" THEN LastQuoted(lastRate, data, 1)
                                          ELSE lastRate)
        /\ lastSync' = [c \in DOMAIN lastSync \cup synced |->
                           IF c \in synced THEN current_date ELSE lastSync[c]]
        /\ UNCHANGED <<today, company, firstRec, lastRec>>

RateRows == {Dict("EUR", <<1, 2>>), Dict("EUR", <<2, 1>>),
             Dict("GBP", <<1, 2>>), Dict("GBP", <<0, 1>>)}

RateBatches == SeqUpTo(RateRows, MaxBatch)

UpsertRates ==
    \E data \in RateBatches, reachable \in BOOLEAN :
        \E failAt \in FailPoints(data, reachable) :
            upsert_exchange_rates(data, reachable, failAt)

NextRates == Tick \/ CollectGarbage \/ UpsertRates

SpecRates == Init /\ [][NextRates]_vars

(***************************************************************************)
(* The currency sync: the distinct currencies of Company, looked up in     *)
(* the mapping of the foreign-exchange provider.                           *)
(***************************************************************************)
\* SELECT DISTINCT currency FROM Company
DistinctCurrencies(table) == {r.currency : r \in table}

\* the comprehension of process_currency_data without the KeyError: a
\* currency the mapping lacks is passed over
RECURSIVE process_currency_data_skip(_, _, _, _)
process_currency_data_skip(existing_currencies, rates, i, acc) ==
    IF i > Len(existing_currencies)
    THEN [status |-> "ok", value |-> acc]
    ELSE LET currency == existing_currencies[i]
         IN  IF currency # "USD" /\ currency \in DOMAIN rates
             THEN process_currency_data_skip(existing_currencies, rates, i + 1,
                      Append(acc, Dict(currency, rates[currency])))
             ELSE process_currency_data_skip(existing_currencies, rates,
                                             i + 1, acc)

\* the comprehension of process_currency_data that keeps "USD"
RECURSIVE process_currency_data_all(_, _, _, _)
process_currency_data_all(existing_currencies, rates, i, acc) ==
    IF i > Len(existing_currencies)
    THEN [status |-> "ok", value |-> acc]
    ELSE LET currency == existing_currencies[i]
         IN  IF currency \notin DOMAIN rates
             THEN IF currency = "USD"
                  THEN process_currency_data_all(existing_currencies, rates,
                                                 i + 1, acc)
                  ELSE [status |-> "KeyError", value |-> <<>>]
             ELSE process_currency_data_all(existing_currencies, rates, i + 1,
                      Append(acc, Dict(currency, rates[currency])))

\* [{currency: rates[currency]} for currency in existing_currencies
\*  if currency != "USD"], from element i on; rates[currency] raises
\* KeyError for a currency the mapping lacks
RECURSIVE process_currency_data_from(_, _, _, _)
process_currency_data_from(existing_currencies, rates, i, acc) ==
    IF i > Len(existing_currencies)
    THEN [status |-> "ok", value |-> acc]
    ELSE LET currency == existing_currencies[i]
         IN  IF currency # "USD"
             THEN IF currency \in DOMAIN rates
                  THEN process_currency_data_from(existing_currencies, rates,
                           i + 1, Append(acc, Dict(currency, rates[currency])))
                  ELSE [status |-> "KeyError", value |-> <<>>]
             ELSE process_currency_data_from(existing_currencies, rates,
                                             i + 1, acc)

process_currency_data(existing_currencies, rates) ==
    process_currency_data_from(existing_currencies, rates, 1, <<>>)

\* the statement of a read-only call either runs or raises a storage error
ReadStatus(conn, failAt) ==
    IF ~conn THEN "AttributeError"
    ELSE IF failAt # 0 THEN "StorageError"
    ELSE "ok"

get_currencies_from_database(reachable, failAt, currencies) ==
    LET conn == connect_to_db(reachable)
        status == ReadStatus(conn, failAt)
    IN  /\ Range(currencies) = DistinctCurrencies(company)
        /\ Len(currencies) = Cardinality(DistinctCurrencies(company))
        /\ openConns' = ConnsAfterCall(conn)
        /\ op' = "get_currencies_from_database"
        /\ args' = <<>>
        /\ outcome' = status
        /\ result' = (IF status = "ok" THEN currencies ELSE <<>>)
        /\ executed' = 0
        /\ UNCHANGED <<today, company, exchangeRates, firstRec, lastRec,
                       lastRate, lastSync>>

\* available: CurrencyRates().get_rates("USD") answered with the mapping
\* rates; otherwise it raised RatesNotAvailableError
get_exchange_rates_from_api(reachable, failAt, currencies, available, rates) ==
    LET conn == connect_to_db(reachable)
        read == ReadStatus(conn, failAt)
        processed == process_currency_data(currencies, rates)
        status == IF read # "ok" THEN read
                  ELSE IF ~available THEN "RatesNotAvailableError"
                  ELSE processed.status
    IN  /\ Range(currencies) = DistinctCurrencies(company)
        /\ Len(currencies) = Cardinality(DistinctCurrencies(company))
        /\ openConns' = ConnsAfterCall(conn)
        /\ op' = "get_exchange_rates_from_api"
        /\ args' = [existing_currencies |-> IF read = "ok" THEN currencies
                                                           ELSE <<>>,
                    looked_up |-> read = "ok" /\ available,
                    rates |-> rates]
        /\ outcome' = status
        /\ result' = (IF status = "ok" THEN processed.value ELSE <<>>)
        /\ executed' = 0
        /\ UNCHANGED <<today, company, exchangeRates, firstRec, lastRec,
                       lastRate, lastSync>>

(***************************************************************************)
(* process_stock_data.                                                     *)
(***************************************************************************)
\* ticker.ticker["symbol"] in the except clause: ticker.ticker is the
\* symbol, a str, and a str indexed by a str raises TypeError
StrSubscript(str, key) == "TypeError"

\* the for loop of process_stock_data from ticker i on
RECURSIVE process_stock_data_from(_, _, _, _)
process_stock_data_from(tickers, i, stock_data, current_date) ==
    IF i > Len(tickers)
    THEN [status |-> "ok", value |-> stock_data]
    ELSE LET ticker == tickers[i]
         IN  IF InfoKeys \subseteq DOMAIN ticker.info
             THEN process_stock_data_from(tickers, i + 1,
                      Append(stock_data,
                             CompanyRecord(ticker.info, current_date)),
                      current_date)
             ELSE \* except KeyError: print(..., ticker.ticker["symbol"])
                  LET printed == StrSubscript(ticker.ticker, "symbol")
                  IN  IF printed = "TypeError"
                      THEN [status |-> "TypeError", value |-> <<>>]
                      ELSE process_stock_data_from(tickers, i + 1, stock_data,
                                                   current_date)

process_stock_data(tickers, current_date) ==
    process_stock_data_from(tickers, 1, <<>>, current_date)

(***************************************************************************)
(* get_companies_from_database: the query text and what PostgreSQL makes   *)
(* of it.                                                                  *)
(***************************************************************************)
\* the columns of Company in the order SELECT * returns them
CompanyColumns == <<"ticker", "name", "market_cap", "currency", "date",
                    "sector", "website">>

\* the tuple fetchall() returns for a row
SelectStar(r) == [i \in 1..Len(CompanyColumns) |-> r[CompanyColumns[i]]]

Sectors == {"Tech", "Energy"}

Quote(v) == "'" \o v \o "'"

\* for x in list: query_string += x
RECURSIVE Concat(_, _)
Concat(list, i) == IF i > Len(list) THEN "" ELSE list[i] \o Concat(list, i + 1)

RECURSIVE Join(_, _, _)
Join(list, sep, i) ==
    IF i = Len(list) THEN list[i] ELSE list[i] \o sep \o Join(list, sep, i + 1)

query_string(count, exclude_companies, wanted_categories) ==
    "SELECT * FROM Company"
    \o (IF Len(exclude_companies) # 0
        THEN " WHERE ticker NOT IN (" \o Concat(exclude_companies, 1) \o ")"
        ELSE "")
    \o (IF Len(exclude_companies) # 0 /\ Len(wanted_categories) # 0
        THEN " AND sector IN (" \o Concat(wanted_categories, 1) \o ")"
        ELSE "")
    \o (IF Len(exclude_companies) = 0 /\ Len(wanted_categories) # 0
        THEN " WHERE sector IN (" \o Concat(wanted_categories, 1) \o ")"
        ELSE "")
    \o " ORDER BY RANDOM() LIMIT " \o ToString(count) \o ";"

\* the words the tickers and sectors of the model are written with
SqlWords == Symbols \cup Sectors

\* the runs of quoted words a text between the parentheses may consist of
QuotedRuns == SeqUpTo(SqlWords, MaxList) \ {<< >>}

RunText(run) == Concat([i \in 1..Len(run) |-> Quote(run[i])], 1)

\* How PostgreSQL reads the text between the parentheses of IN (...) for a
\* row.  'a' is a string constant, and so is 'a''b' (the constant a'b: two
\* quotes inside a constant stand for one); a bare word is a column
\* reference, an error unless the table has the column.
InListValue(text, row) ==
    IF \E run \in QuotedRuns : RunText(run) = text
    THEN [status |-> "ok",
          value |-> Join(CHOOSE run \in QuotedRuns : RunText(run) = text,
                         "'", 1)]
    ELSE IF text \in {"ticker", "name", "currency", "sector", "website"}
    THEN [status |-> "ok", value |-> row[text]]
    ELSE [status |-> "ProgrammingError", value |-> ""]

\* the WHERE clause of the query text, evaluated for a row
Where(exclude_companies, wanted_categories, row) ==
    LET notIn == InListValue(Concat(exclude_companies, 1), row)
        in == InListValue(Concat(wanted_categories, 1), row)
    IN  IF Len(exclude_companies) # 0 /\ notIn.status # "ok"
        THEN [status |-> notIn.status, value |-> FALSE]
        ELSE IF Len(wanted_categories) # 0 /\ in.status # "ok"
        THEN [status |-> in.status, value |-> FALSE]
        ELSE [status |-> "ok",
              value |-> /\ Len(exclude_companies) # 0
                             => row.ticker # notIn.value
                        /\ Len(wanted_categories) # 0
                             => row.sector = in.value]

\* the statement fails when the clause cannot be evaluated (the analysis of
\* the statement rejects an unknown column whatever the table holds)
QueryStatus(exclude_companies, wanted_categories) ==
    Where(exclude_companies, wanted_categories,
          CompanyRecord(FullInfo("AAPL", 1), 1)).status

Selected(table, exclude_companies, wanted_categories) ==
    {r \in table : Where(exclude_companies, wanted_categories, r).value}

\* ORDER BY RANDOM() LIMIT count: any count rows (all, if there are fewer)
\* of the selected ones, in any order
Samples(rows, count) ==
    LET n == Min(count, Cardinality(rows))
    IN  {s \in [1..n -> rows] : \A i, j \in 1..n : s[i] = s[j] => i = j}

\* company[k] of Python: the tuple counts from 0
PyIndexInRange(tuple, k) == k < Len(tuple)

PyIndex(tuple, k) == tuple[k + 1]

\* the comprehension that builds company_array from the fetched tuples
CompanyArray(company_data) ==
    IF \E i \in 1..Len(company_data) : ~PyIndexInRange(company_data[i], 7)
    THEN [status |-> "IndexError", value |-> <<>>]
    ELSE [status |-> "ok",
          value |-> [i \in 1..Len(company_data) |->
                        [ticker |-> PyIndex(company_data[i], 1),
                         name |-> PyIndex(company_data[i], 2),
                         market_cap |-> PyIndex(company_data[i], 3),
                         currency |-> PyIndex(company_data[i], 4),
                         date |-> PyIndex(company_data[i], 5),
                         sector |-> PyIndex(company_data[i], 6),
                         website |-> PyIndex(company_data[i], 7)]]]

\* rows: the sample fetchall() returns.  breakpoint() before the return
\* stops in the debugger and the call goes on from there.
get_companies_from_database(count, exclude_companies, wanted_categories, reachable, failAt, rows) ==
    LET conn == connect_to_db(reachable)
        read == ReadStatus(conn, failAt)
        parsed == QueryStatus(exclude_companies, wanted_categories)
        company_data == [i \in 1..Len(rows) |-> SelectStar(rows[i])]
        built == CompanyArray(company_data)
        status == IF read # "ok" THEN read
                  ELSE IF parsed # "ok" THEN parsed
                  ELSE built.status
    IN  /\ \/ /\ read = "ok" /\ parsed = "ok"
              /\ rows \in Samples(Selected(company, exclude_companies,
                                            wanted_categories), count)
           \/ /\ ~(read = "ok" /\ parsed = "ok")
              /\ rows = << >>
        /\ openConns' = ConnsAfterCall(conn)
        /\ op' = "get_companies_from_database"
        /\ args' = [count |-> count,
                    exclude_companies |-> exclude_companies,
                    wanted_categories |-> wanted_categories,
                    query |-> query_string(count, exclude_companies,
                                           wanted_categories)]
        /\ outcome' = status
        /\ result' = (IF status = "ok" THEN built.value ELSE <<>>)
        /\ executed' = 0
        /\ UNCHANGED <<today, company, exchangeRates, firstRec, lastRec,
                       lastRate, lastSync>>

(***************************************************************************)
(* The whole program: every function that reaches the store, each called   *)
(* with arguments from a small set.                                        *)
(***************************************************************************)
SmallStockBatches(d) ==
    SeqUpTo({CompanyRecord(FullInfo("AAPL", v), d) : v \in Versions}
            \cup {MalformedRecord(d)}, MaxBatch)

SmallRateBatches ==
    SeqUpTo({Dict("EUR", r) : r \in ProviderRates} \cup {EmptyDict}, MaxBatch)

SmallMappings == {<< >>, "EUR" :> <<1, 2>>}

UpsertStockSmall ==
    \E data \in SmallStockBatches(today), reachable \in BOOLEAN :
        \E failAt \in FailPoints(data, reachable) :
            upsert_stock_data(data, reachable, failAt)

UpsertRatesSmall ==
    \E data \in SmallRateBatches, reachable \in BOOLEAN :
        \E failAt \in FailPoints(data, reachable) :
            upsert_exchange_rates(data, reachable, failAt)

GetCurrencies ==
    \E reachable \in BOOLEAN, failAt \in {0, 1},
       currencies \in Orderings(DistinctCurrencies(company)) :
        get_currencies_from_database(reachable, failAt, currencies)

GetExchangeRates ==
    \E reachable \in BOOLEAN, failAt \in {0, 1}, available \in BOOLEAN,
       currencies \in Orderings(DistinctCurrencies(company)),
       rates \in SmallMappings :
        get_exchange_rates_from_api(reachable, failAt, currencies, available,
                                    rates)

GetCompanies ==
    \E count \in {0, 1}, exclude_companies \in {<< >>, <<"AAPL">>},
       wanted_categories \in {<< >>, <<Quote("Tech")>>},
       reachable \in BOOLEAN, failAt \in {0, 1} :
        \E rows \in UNION {Samples(company, k) : k \in 0..count} :
            get_companies_from_database(count, exclude_companies,
                                        wanted_categories, reachable, failAt,
                                        rows)

NextUpsert == CollectGarbage \/ UpsertStockSmall \/ UpsertRatesSmall

SpecUpsert == Init /\ [][NextUpsert]_vars

Next ==
    \/ Tick
    \/ CollectGarbage
    \/ UpsertStockSmall
    \/ UpsertRatesSmall
    \/ GetCurrencies
    \/ GetExchangeRates
    \/ GetCompanies

Spec == Init /\ [][Next]_vars

\* the currency sync over a store that holds USD, EUR and GBP companies
SyncStockBatches(d) ==
    SeqUpTo({CompanyRecord(FullInfo(s, 1), d) : s \in Symbols}, MaxBatch)

SyncMappings ==
    UNION {[S -> {<<1, 2>>}] : S \in SUBSET {"USD", "EUR", "GBP"}}

UpsertStockSync ==
    \E data \in SyncStockBatches(today), reachable \in BOOLEAN :
        \E failAt \in FailPoints(data, reachable) :
            upsert_stock_data(data, reachable, failAt)

GetExchangeRatesSync ==
    \E reachable \in BOOLEAN, failAt \in {0, 1}, available \in BOOLEAN,
       currencies \in Orderings(DistinctCurrencies(company)),
       rates \in SyncMappings :
        get_exchange_rates_from_api(reachable, failAt, currencies, available,
                                    rates)

NextSync == CollectGarbage \/ UpsertStockSync \/ GetExchangeRatesSync

SpecSync == Init /\ [][NextSync]_vars

(***************************************************************************)
(* The two normalizers and the query, each applied once to an input.       *)
(***************************************************************************)
InitInput ==
    /\ today \in 1..MaxDay
    /\ exchangeRates = {}
    /\ openConns = 0
    /\ op = "input"
    /\ outcome = "ok"
    /\ result = <<>>
    /\ executed = 0
    /\ lastRate = <<>>
    /\ lastSync = <<>>

\* tickers.tickers.values(): the Ticker objects of a dict keyed by symbol
TickerLists ==
    {l \in SeqUpTo(TickerObjects, MaxTickers) :
        \A i, j \in 1..Len(l) : l[i].ticker = l[j].ticker => i = j}

InitProcess ==
    /\ InitInput
    /\ company = {}
    /\ firstRec = <<>>
    /\ lastRec = <<>>
    /\ args \in TickerLists

ProcessStockData ==
    /\ op = "input"
    /\ LET run == process_stock_data(args, today)
       IN  /\ op' = "process_stock_data"
           /\ outcome' = run.status
           /\ result' = run.value
    /\ UNCHANGED <<today, company, exchangeRates, openConns, args, executed,
                   firstRec, lastRec, lastRate, lastSync>>

SpecProcess == InitProcess /\ [][ProcessStockData]_vars

CurrencyCodes == {"USD", "EUR", "GBP"}

RateMappings == UNION {[S -> ProviderRates] : S \in SUBSET CurrencyCodes}

InitCurrency ==
    /\ InitInput
    /\ company = {}
    /\ firstRec = <<>>
    /\ lastRec = <<>>
    /\ args \in [existing_currencies : SeqUpTo(CurrencyCodes, MaxCurrencies),
                  rates : RateMappings]

ProcessCurrencyData ==
    /\ op = "input"
    /\ LET run == process_currency_data(args.existing_currencies, args.rates)
       IN  /\ op' = "process_currency_data"
           /\ outcome' = run.status
           /\ result' = run.value
    /\ UNCHANGED <<today, company, exchangeRates, openConns, args, executed,
                   firstRec, lastRec, lastRate, lastSync>>

SpecCurrency == InitCurrency /\ [][ProcessCurrencyData]_vars

ExcludeElems == {"AAPL", Quote("AAPL"), Quote("AMD")}

WantedElems == {"Tech", Quote("Tech"), Quote("Energy")}

\* the stores the query is asked of: those a batch of complete records
\* leaves in an empty table
InitQuery ==
    /\ InitInput
    /\ \E data \in SeqUpTo({CompanyRecord(FullInfo(s, v), today) :
                                s \in StoredSymbols, v \in Versions},
                            MaxBatch) :
          /\ company = StockBatchResult({}, data).txn
          /\ firstRec = FirstSeen(<<>>, data, 1)
          /\ lastRec = LastSeen(<<>>, data, 1)
    /\ args \in [count : 0..MaxCount,
                  exclude_companies : SeqUpTo(ExcludeElems, MaxList),
                  wanted_categories : SeqUpTo(WantedElems, MaxList)]

QueryCompanies ==
    /\ op = "input"
    /\ \E reachable \in BOOLEAN, failAt \in {0, 1} :
          \E rows \in UNION {Samples(company, k) : k \in 0..args.count} :
              get_companies_from_database(args.count, args.exclude_companies,
                                          args.wanted_categories, reachable,
                                          failAt, rows)

SpecQuery == InitQuery /\ [][QueryCompanies]_vars

(***************************************************************************)
(* C1.  The Company table after any sequence of upsert batches.            *)
(***************************************************************************)
\* C1: the store holds exactly one row per ticker of the committed batches;
\* name and sector are those of the first record committed for the ticker,
\* market_cap, date, currency and website those of the most recent one; and
\* upserting a batch a second time leaves the store as the first time did.
C1_OneRowPerTicker ==
    /\ {r.ticker : r \in company} = DOMAIN firstRec
    /\ \A r1, r2 \in company : r1.ticker = r2.ticker => r1 = r2
    /\ \A r \in company :
          /\ r.name = firstRec[r.ticker].name
          /\ r.sector = firstRec[r.ticker].sector
          /\ r.market_cap = lastRec[r.ticker].market_cap
          /\ r.date = lastRec[r.ticker].date
          /\ r.currency = lastRec[r.ticker].currency
          /\ r.website = lastRec[r.ticker].website
    /\ \A data \in StockBatches(today) :
          LET once == StockBatchResult(company, data)
          IN  once.status = "ok" =>
                StockBatchResult(once.txn, data).txn = once.txn

\* a ticker re-ingested on a later day with another name, sector and
\* market cap, next to a second ticker
C1_Witness ==
    /\ Cardinality(company) = 2
    /\ \E r \in company :
          /\ firstRec[r.ticker].name # lastRec[r.ticker].name
          /\ firstRec[r.ticker].sector # lastRec[r.ticker].sector
          /\ firstRec[r.ticker].date < lastRec[r.ticker].date
          /\ r.market_cap # firstRec[r.ticker].market_cap

(***************************************************************************)
(* C6, C7.  The ExchangeRates table after any sequence of syncs.           *)
(***************************************************************************)
\* C6: every stored rate row has to_currency "USD", there is at most one
\* row per (from_currency, to_currency), and its ratio is 1/r for the rate r
\* the provider quoted for the currency in the last committed batch that
\* held it: ratio * r = 1.
C6_RatioIsInverse ==
    /\ {r.from_currency : r \in exchangeRates} = DOMAIN lastRate
    /\ \A r \in exchangeRates :
          /\ r.to_currency = "USD"
          /\ r.ratio[1] * lastRate[r.from_currency][1]
               = r.ratio[2] * lastRate[r.from_currency][2]
    /\ \A r1, r2 \in exchangeRates :
          (r1.from_currency = r2.from_currency
             /\ r1.to_currency = r2.to_currency) => r1 = r2

\* both currencies stored, one of them with a rate that a later batch
\* replaced: its ratio is 2 = 1 / (1/2) or 1/2 = 1 / 2
C6_Witness ==
    /\ Cardinality(exchangeRates) = 2
    /\ \E r \in exchangeRates :
          /\ lastSync[r.from_currency] > r.date
          /\ r.ratio # lastRate[r.from_currency]

\* C7: the stored date of each pair is the date of the most recent sync
\* that upserted the pair.
C7_DateIsLastSync ==
    \A r \in exchangeRates : r.date = lastSync[r.from_currency]

(***************************************************************************)
(* C2.  A batch is committed whole or not at all.                          *)
(***************************************************************************)
Upserts == {"upsert_stock_data", "upsert_exchange_rates"}

\* C2: an upsert call that ends in error leaves both committed tables as
\* they were before the call, and a call changes the store only when it
\* returns, every row of its batch executed.
C2_AllOrNothing ==
    [][op' \in Upserts =>
          /\ outcome' # "ok" =>
                (company' = company /\ exchangeRates' = exchangeRates)
          /\ outcome' = "ok" => executed' = args'.n
          /\ (company' # company \/ exchangeRates' # exchangeRates) =>
                (outcome' = "ok" /\ executed' = args'.n)]_vars

\* a call that failed at a later row, after the statement of an earlier
\* row of the batch had been executed
C2_Witness ==
    /\ op \in Upserts
    /\ outcome \in {"KeyError", "IndexError", "ZeroDivisionError",
                     "StorageError"}
    /\ executed >= 1
    /\ executed < args.n

(***************************************************************************)
(* C3.  Connections.                                                       *)
(***************************************************************************)
\* C3: once a call has returned or raised, no connection is open.
C3_ConnectionsReleased == op # "none" => openConns = 0

(***************************************************************************)
(* C4.  process_stock_data on records that lack fields.                    *)
(***************************************************************************)
IsComplete(ticker) == InfoKeys \subseteq DOMAIN ticker.info

\* C4: process_stock_data raises nothing and returns one Company record
\* for each complete ticker, in input order (N - M records).
C4_SkipsIncomplete ==
    op = "process_stock_data" =>
        LET complete == SelectSeq(args, IsComplete)
        IN  /\ outcome = "ok"
            /\ result = [i \in 1..Len(complete) |->
                            CompanyRecord(complete[i].info, today)]

(***************************************************************************)
(* C5, C10.  The query.                                                    *)
(***************************************************************************)
\* the ticker or sector a list element stands for, quoted or not
Meaning(e) ==
    IF \E w \in SqlWords : Quote(w) = e
    THEN CHOOSE w \in SqlWords : Quote(w) = e
    ELSE e

Meanings(list) == {Meaning(list[i]) : i \in 1..Len(list)}

Qualifying ==
    {r \in company :
        /\ r.ticker \notin Meanings(args.exclude_companies)
        /\ Len(args.wanted_categories) # 0
             => r.sector \in Meanings(args.wanted_categories)}

\* C5: a query that found the store returns min(count, qualifying rows)
\* rows, each of a ticker outside the exclusion list and, when there is an
\* allow-list, of a sector in it.
C5_FilterAndCount ==
    (op = "get_companies_from_database"
        /\ outcome \notin {"AttributeError", "StorageError"}) =>
        /\ outcome = "ok"
        /\ Len(result) = Min(args.count, Cardinality(Qualifying))
        /\ \A i \in 1..Len(result) :
              \E r \in Qualifying : r.ticker = result[i].ticker

\* C10: building the records raises no error, and every record returned
\* carries in each field the value of the same-named column of a stored row.
C10_FieldsMatchColumns ==
    op = "get_companies_from_database" =>
        /\ outcome # "IndexError"
        /\ \A i \in 1..Len(result) : \E r \in company : result[i] = r

(***************************************************************************)
(* C8, C9.  process_currency_data.                                         *)
(***************************************************************************)
IsNotUSD(currency) == currency # "USD"

\* C8: when the mapping covers every stored currency other than "USD",
\* process_currency_data returns one {currency: rate} for each of them, in
\* input order, and none for "USD".
C8_OneMappingPerCurrency ==
    (op = "process_currency_data"
        /\ \A c \in Range(args.existing_currencies) :
              c # "USD" => c \in DOMAIN args.rates) =>
        LET needed == SelectSeq(args.existing_currencies, IsNotUSD)
        IN  /\ outcome = "ok"
            /\ result = [i \in 1..Len(needed) |->
                            Dict(needed[i], args.rates[needed[i]])]

\* stored {EUR, GBP, USD} and a mapping that quotes all three: two mappings
C8_Witness ==
    /\ op = "process_currency_data"
    /\ args.existing_currencies = <<"EUR", "GBP", "USD">>
    /\ DOMAIN args.rates = {"EUR", "GBP", "USD"}
    /\ outcome = "ok"
    /\ Len(result) = 2

\* C9: when a stored currency other than "USD" is absent from the mapping,
\* the sync raises KeyError, returns no list, and leaves the store as it was.
C9_MissingRateFails ==
    [][(/\ op' = "get_exchange_rates_from_api"
        /\ args'.looked_up
        /\ \E c \in Range(args'.existing_currencies) :
              c # "USD" /\ c \notin DOMAIN args'.rates) =>
          /\ outcome' = "KeyError"
          /\ result' = <<>>
          /\ company' = company
          /\ exchangeRates' = exchangeRates]_vars

\* two stored currencies other than "USD", the first quoted by the provider
\* and the second not: the call raised instead of returning the first
C9_Witness ==
    /\ op = "get_exchange_rates_from_api"
    /\ outcome = "KeyError"
    /\ Len(args.existing_currencies) >= 2
    /\ args.existing_currencies[1] # "USD"
    /\ args.existing_currencies[1] \in DOMAIN args.rates
    /\ company # {}

====
